---- MODULE Spec2Model ----
(***************************************************************************)
(* Model of the dual-agent document question-answering service:            *)
(*   api.py     request handlers and the two global agent references       *)
(*   agents.py  BaseAgent / SOPAgent / HCAgent                             *)
(*   ingest.py  DocumentIngestor                                           *)
(* Every request handler is an `async def` without an await, so a handler  *)
(* runs to completion before the next one starts: one action per handler.  *)
(* The embedding function, the chat-completion function, the document      *)
(* loaders, the text splitter and the FAISS store are external: their      *)
(* results and failures are chosen nondeterministically.                   *)
(***************************************************************************)
EXTENDS Integers, Sequences, FiniteSets, TLC

VARIABLES
    phase,      \* "boot" before the startup event, "up" after it; the name
                \* of the script in the specifications of single classes
    env_loaded, \* os.getenv("AZURE_OPENAI_ENDPOINT") is set
    sop_disk,   \* what is persisted at settings.SOP_VECTORSTORE_PATH
    hc_disk,    \* what is persisted at settings.HC_VECTORSTORE_PATH
    uploads,    \* names of the files present in settings.HC_UPLOAD_DIR
    sop_agent,  \* api.sop_agent
    hc_agent,   \* api.hc_agent
    ingestor,   \* the DocumentIngestor object of the ingestion script
    loop,       \* the event loop of the server: the handler it is running
                \* and the requests that wait for it
    last        \* the request handled last, its response and what it invoked

vars == <<phase, env_loaded, sop_disk, hc_disk, uploads, sop_agent, hc_agent, ingestor,
         loop, last>>

-----------------------------------------------------------------------------
(* Bounds of the model *)

\* largest number of chunks in an index found on disk at process start
MaxIdx == 5
\* largest number of pages a loader extracts from an uploaded file
MaxPages == 2
\* number of different questions asked
MaxQuestion == 2
\* longest chunk sequence given to extract_sources on its own
MaxDocs == 3

(* Program constants *)

SOP_TOP_K == 4
HC_TOP_K == 4

-----------------------------------------------------------------------------
(* Values *)

\* Python's None and a set reference: an optional value is a sequence of
\* length 0 or 1
None == <<>>
Some(x) == <<x>>

\* the event loop with no handler running and no request waiting
Idle == [running |-> None, waiting |-> {}]

\* a vector store path: absent, present and readable by FAISS.load_local
\* (holding `chunks`), or present and unreadable
NoIndex == [exists |-> FALSE, loadable |-> FALSE, chunks |-> <<>>]
Corrupt == [exists |-> TRUE, loadable |-> FALSE, chunks |-> <<>>]
Index(chunks) == [exists |-> TRUE, loadable |-> TRUE, chunks |-> chunks]

Min(a, b) == IF a <= b THEN a ELSE b

\* dict.get(key, default)
Get(md, k, d) == IF k \in DOMAIN md THEN md[k] ELSE d

RECURSIVE SumSeq(_)
SumSeq(s) == IF s = <<>> THEN 0 ELSE Head(s) + SumSeq(Tail(s))

\* file names are sequences of characters
Name_a_pdf  == <<"a", ".", "p", "d", "f">>
Name_b_docx == <<"b", ".", "d", "o", "c", "x">>
Name_dotpdf == <<".", "p", "d", "f">>
Name_c_txt  == <<"c", ".", "t", "x", "t">>

FileNames == {Name_a_pdf, Name_b_docx, Name_dotpdf, Name_c_txt}

\* questions are numbered
Questions == 1..MaxQuestion

-----------------------------------------------------------------------------
(* Text helpers.  Texts that the code inspects (file names, identifiers,   *)
(* titles) are sequences of characters.                                    *)

Unknown == <<"U", "n", "k", "n", "o", "w", "n">>

\* str.endswith(suffix)
EndsWith(s, suf) ==
    /\ Len(s) >= Len(suf)
    /\ SubSeq(s, Len(s) - Len(suf) + 1, Len(s)) = suf

\* `sub in s` for strings
Contains(s, sub) ==
    \E i \in 1..(Len(s) - Len(sub) + 1) : SubSeq(s, i, i + Len(sub) - 1) = sub

\* str.lower(), on the characters the file names use
LowerChar(c) ==
    CASE c = "P" -> "p"
      [] c = "D" -> "d"
      [] c = "F" -> "f"
      [] OTHER -> c

Lower(s) == [i \in 1..Len(s) |-> LowerChar(s[i])]

\* os.path.splitext(path)[1] for a path whose last component is `name`:
\* the extension starts at the last dot, unless only dots precede it
SplitExt(name) ==
    LET dots == {i \in 1..Len(name) : name[i] = "."}
    IN  IF dots = {} THEN <<>>
        ELSE LET d == CHOOSE i \in dots : \A j \in dots : j <= i
             IN  IF \E j \in 1..(d - 1) : name[j] # "."
                 THEN SubSeq(name, d, Len(name))
                 ELSE <<>>

-----------------------------------------------------------------------------
(* ingest.py: documents, metadata and chunks.                              *)
(* A markdown file is modelled by its name, by what the three labelled     *)
(* patterns capture in its text (a label that does not occur is absent     *)
(* from `found`), and by the number of chunks the text splitter cuts.      *)

Doc_Type_SOP == "Standard Operating Procedure"
Doc_Type_WI  == "Work Instruction"
Doc_Type_QA  == "Quality Assurance Document"
Doc_Type_Doc == "Document"

\* the function f extended or overwritten at key k
Put(f, k, v) == [x \in DOMAIN f \cup {k} |-> IF x = k THEN v ELSE f[x]]

\* str.strip() for the blank character " "
RECURSIVE LStrip(_)
LStrip(s) == IF s # <<>> /\ Head(s) = " " THEN LStrip(Tail(s)) ELSE s

RECURSIVE RStrip(_)
RStrip(s) ==
    IF s # <<>> /\ s[Len(s)] = " " THEN RStrip(SubSeq(s, 1, Len(s) - 1)) ELSE s

Strip(s) == LStrip(RStrip(s))

\* mutant: the test for "WI" made before the test for "SOP"
doc_type_of_wi_first(doc_id) ==
    IF Contains(doc_id, <<"W", "I">>) THEN Doc_Type_WI
    ELSE IF Contains(doc_id, <<"S", "O", "P">>) THEN Doc_Type_SOP
    ELSE IF Contains(doc_id, <<"Q", "A">>) THEN Doc_Type_QA
    ELSE Doc_Type_Doc

\* _extract_metadata, the if / elif chain that sets doc_type
doc_type_of(doc_id) ==
    IF Contains(doc_id, <<"S", "O", "P">>) THEN Doc_Type_SOP
    ELSE IF Contains(doc_id, <<"W", "I">>) THEN Doc_Type_WI
    ELSE IF Contains(doc_id, <<"Q", "A">>) THEN Doc_Type_QA
    ELSE Doc_Type_Doc

_extract_metadata(found, filename) ==
    LET m0 == [source |-> filename, filename |-> filename]
        m1 == IF "document_id" \in DOMAIN found
              THEN Put(m0, "document_id", found["document_id"]) ELSE m0
        m2 == IF "title" \in DOMAIN found
              THEN Put(m1, "title", Strip(found["title"])) ELSE m1
        m3 == IF "version" \in DOMAIN found
              THEN Put(m2, "version", found["version"]) ELSE m2
    IN  Put(m3, "doc_type", doc_type_of(Get(m3, "document_id", <<>>)))

\* RecursiveCharacterTextSplitter.split_documents followed by the numbering
\* loop: every document gives `pieces` chunks that copy its metadata, and
\* the chunks are numbered from 0 across the whole batch
RECURSIVE split_documents(_)
split_documents(docs) ==
    IF docs = <<>> THEN <<>>
    ELSE LET d == Head(docs)
         IN  [i \in 1..d.pieces |->
                 [page_content |-> <<d.metadata.source, i>>, metadata |-> d.metadata]]
             \o split_documents(Tail(docs))

\* mutant: a numbering that restarts at 0 with every document
chunk_documents_per_document(docs) ==
    LET chunks == split_documents(docs)
    IN  [i \in 1..Len(chunks) |->
            [page_content |-> chunks[i].page_content,
             metadata |-> Put(chunks[i].metadata, "chunk_id",
                              chunks[i].page_content[2] - 1)]]

chunk_documents(docs) ==
    LET chunks == split_documents(docs)
    IN  [i \in 1..Len(chunks) |->
            [page_content |-> chunks[i].page_content,
             metadata |-> Put(chunks[i].metadata, "chunk_id", i - 1)]]

-----------------------------------------------------------------------------
(* ingest.py: loading an uploaded file.                                    *)
(* The text of an uploaded file is modelled by `pages`, the number of      *)
(* chunks the splitter cuts from each page the loader extracts.            *)

\* DocumentIngestor.load_document, the branch taken for the file's name
LoaderOf(filename) ==
    LET file_extension == Lower(SplitExt(filename))
    IN  IF file_extension = <<".", "p", "d", "f">> THEN "PyPDFLoader"
        ELSE IF file_extension \in {<<".", "d", "o", "c", "x">>, <<".", "d", "o", "c">>}
             THEN "Docx2txtLoader"
        ELSE IF file_extension = <<".", "m", "d">> THEN "markdown"
        ELSE "unsupported"

\* PyPDFLoader gives one Document per page, with the page number in its
\* metadata; Docx2txtLoader gives one Document for the whole file
load_document(filename, pages) ==
    IF LoaderOf(filename) = "PyPDFLoader"
    THEN [i \in 1..Len(pages) |->
             [metadata |-> [source |-> filename, page |-> i - 1], pieces |-> pages[i]]]
    ELSE << [metadata |-> [source |-> filename], pieces |-> SumSeq(pages)] >>

-----------------------------------------------------------------------------
(* agents.py: BaseAgent helpers and retrieval                              *)

\* BaseAgent._extract_sources: the loop over docs with the local set `seen`
RECURSIVE extract_loop(_, _, _)
extract_loop(docs, sources, seen) ==
    IF docs = <<>> THEN sources
    ELSE LET doc == Head(docs)
             doc_id == Get(doc.metadata, "document_id", Unknown)
         IN  IF doc_id \notin seen
             THEN extract_loop(Tail(docs),
                      Append(sources,
                          [document_id |-> doc_id,
                           title |-> Get(doc.metadata, "title", Unknown),
                           doc_type |-> Get(doc.metadata, "doc_type", Doc_Type_Doc),
                           filename |-> Get(doc.metadata, "filename", Unknown)]),
                      seen \cup {doc_id})
             ELSE extract_loop(Tail(docs), sources, seen)

\* mutant: the loop without the `seen` test
_extract_sources_no_seen(docs) ==
    [i \in 1..Len(docs) |->
        [document_id |-> Get(docs[i].metadata, "document_id", Unknown),
         title |-> Get(docs[i].metadata, "title", Unknown),
         doc_type |-> Get(docs[i].metadata, "doc_type", Doc_Type_Doc),
         filename |-> Get(docs[i].metadata, "filename", Unknown)]]

\* mutant: a loop that remembers only the identifiers chunks carry, so that
\* every chunk without one is cited
RECURSIVE extract_loop_idless_apart(_, _, _)
extract_loop_idless_apart(docs, sources, seen) ==
    IF docs = <<>> THEN sources
    ELSE LET doc == Head(docs)
             doc_id == Get(doc.metadata, "document_id", Unknown)
         IN  IF doc_id \notin seen
             THEN extract_loop_idless_apart(Tail(docs),
                      Append(sources,
                          [document_id |-> doc_id,
                           title |-> Get(doc.metadata, "title", Unknown),
                           doc_type |-> Get(doc.metadata, "doc_type", Doc_Type_Doc),
                           filename |-> Get(doc.metadata, "filename", Unknown)]),
                      IF "document_id" \in DOMAIN doc.metadata
                      THEN seen \cup {doc_id} ELSE seen)
             ELSE extract_loop_idless_apart(Tail(docs), sources, seen)

_extract_sources_idless_apart(docs) == extract_loop_idless_apart(docs, <<>>, {})

_extract_sources(docs) == extract_loop(docs, <<>>, {})

\* HCAgent.query, the list comprehension over result["source_documents"]
hc_sources(docs) ==
    [i \in 1..Len(docs) |->
        [document_id |-> Get(docs[i].metadata, "document_id", Unknown),
         title |-> Get(docs[i].metadata, "title", Unknown),
         doc_type |-> Get(docs[i].metadata, "doc_type", Doc_Type_Doc),
         filename |-> Get(docs[i].metadata, "filename", Unknown),
         content |-> docs[i].page_content]]

\* The embedding function is external.  A question is modelled by a number,
\* and the distance between a question and the i-th chunk of a store by a
\* fixed table in which each question ranks the chunks in a different order
\* (no two chunks of a store are equally far from a question).
Distance(question, i) == (i * question) % 7

\* mutant: a search that ignores k and returns the whole store
Search_ignoring_k(vectorstore, k, question) ==
    LET n == Len(vectorstore)
        nearer(p) == {r \in 1..n : Distance(question, r) < Distance(question, p)}
    IN  [i \in 1..n |->
            vectorstore[CHOOSE p \in 1..n : Cardinality(nearer(p)) = i - 1]]

\* FAISS similarity search with k: the k nearest chunks of the store in
\* ascending distance, or all of them when it holds fewer
Search(vectorstore, k, question) ==
    LET n == Len(vectorstore)
        m == Min(k, n)
        nearer(p) == {r \in 1..n : Distance(question, r) < Distance(question, p)}
    IN  [i \in 1..m |->
            vectorstore[CHOOSE p \in 1..n : Cardinality(nearer(p)) = i - 1]]

-----------------------------------------------------------------------------
(* What can be on disk when the process starts *)

Doc(found, filename, pieces) ==
    [metadata |-> _extract_metadata(found, filename), pieces |-> pieces]

\* a corpus of markdown procedures: two files declare the same Document ID
\* and two declare none
SampleSopDocs ==
    << Doc([document_id |-> <<"S", "O", "P", "-", "1">>, title |-> <<"T", "1", " ">>,
            version |-> <<"1", ".", "0">>], <<"a", ".", "m", "d">>, 2),
       Doc([document_id |-> <<"W", "I", "-", "2">>, title |-> <<"T", "2">>],
           <<"b", ".", "m", "d">>, 1),
       Doc([title |-> <<"T", "3">>], <<"c", ".", "m", "d">>, 1),
       Doc([document_id |-> <<"S", "O", "P", "-", "1">>, title |-> <<"T", "4">>],
           <<"d", ".", "m", "d">>, 1),
       Doc([version |-> <<"2">>], <<"e", ".", "m", "d">>, 1),
       Doc([document_id |-> <<"Q", "A", "-", "3">>], <<"f", ".", "m", "d">>, 1) >>

SampleSopChunks == chunk_documents(SampleSopDocs)

\* an index of fewer chunks than a search asks for, or of MaxIdx chunks
SopDiskStates ==
    {NoIndex}
    \cup {Index(SubSeq(SampleSopChunks, 1, Min(n, Len(SampleSopChunks)))) : n \in {0, 2, MaxIdx}}

\* the index a previous run left: none, an unreadable one, an empty one, or
\* the index of a PDF of MaxIdx pages
HcDiskStates ==
    {NoIndex, Corrupt, Index(<<>>),
     Index(chunk_documents(load_document(Name_a_pdf, [i \in 1..MaxIdx |-> 1])))}

\* the two domains share no state: the disk states a process starts from
\* vary one vector store path at a time, the other one holding no index
\* (HR) or the largest index (SOP)
DiskScenarios ==
    {<<s, NoIndex>> : s \in SopDiskStates}
    \cup {<<Index(SubSeq(SampleSopChunks, 1, MaxIdx)), h>> : h \in HcDiskStates}

\* the text of an uploaded file: no page with text, or MaxPages pages from
\* each of which the splitter cuts one chunk
PageSeqs == {[i \in 1..n |-> 1] : n \in {0, MaxPages}}

-----------------------------------------------------------------------------
(* agents.py: the two agents *)

\* what a call of query did: the exception it raised ("" for none), the
\* result it returned, how often it invoked the similarity search and the
\* chat-completion function, and the chunks the search returned (`retrieved`
\* is their number, -1 when no search returned)
Raised(msg, searches, llm_calls, docs, retrieved) ==
    [raised |-> msg, answer |-> <<>>, sources |-> <<>>, chunks |-> -1,
     searches |-> searches, llm_calls |-> llm_calls, docs |-> docs,
     retrieved |-> retrieved, llm_request |-> None, llm_response |-> None]

Returned(answer, sources, chunks, llm_calls, docs) ==
    [raised |-> "", answer |-> answer, sources |-> sources, chunks |-> chunks,
     searches |-> 1, llm_calls |-> llm_calls, docs |-> docs,
     retrieved |-> Len(docs), llm_request |-> None, llm_response |-> None]

\* an outcome in which the chat-completion function was sent `request` and
\* returned `response` (None when the request failed)
WithLLM(o, request, response) ==
    [o EXCEPT !.llm_request = Some(request), !.llm_response = response]

Err_Embedding == "embedding request failed"
Err_Chat == "chat completion request failed"
Err_HC_NotInitialized == "HC Agent not initialized. Call initialize() first."
\* the FileNotFoundError the two agents raise
Err_SOP_NotFound == "SOP vector store not found"
Err_HC_NotFound == "HC vector store not found"
\* what FAISS.load_local raises when it cannot read an index at the path
Err_LoadLocal == "FAISS.load_local failed"

\* the texts the chat-completion function may generate
LLMTexts == {<<"generated answer">>}

SOP_NoInfo(question) == <<"No relevant SOP information found for: ", question>>

\* prompts.py: the four prompt texts, by name
SOP_SYSTEM_PROMPT == "SOP_SYSTEM_PROMPT"
SOP_RESPONSE_TEMPLATE == "SOP_RESPONSE_TEMPLATE"
HC_SYSTEM_PROMPT == "HC_SYSTEM_PROMPT"
HC_RESPONSE_TEMPLATE == "HC_RESPONSE_TEMPLATE"

\* str.format / PromptTemplate.format: the template with its two fields
\* filled in
Format(template, context, question) ==
    [template |-> template, context |-> context, question |-> question]

\* BaseAgent._format_context: one block per chunk, numbered from 1, with the
\* identifier and the title of its metadata and its text
_format_context(docs) ==
    [i \in 1..Len(docs) |->
        [source |-> i,
         doc_id |-> Get(docs[i].metadata, "document_id", Unknown),
         title |-> Get(docs[i].metadata, "title", Unknown),
         page_content |-> docs[i].page_content]]

\* SOPAgent._generate_answer, the messages given to llm.invoke: a
\* SystemMessage and a HumanMessage
SOPAgent_messages(question, context) ==
    [system |-> Some(SOP_SYSTEM_PROMPT),
     user |-> Format(SOP_RESPONSE_TEMPLATE, context, question)]

\* the "stuff" chain of RetrievalQA: the context is the text of the
\* retrieved chunks, one after the other
stuff_documents(docs) ==
    [i \in 1..Len(docs) |-> [page_content |-> docs[i].page_content]]

\* HCAgent.create_qa_chain: the chain is given PROMPT, made of
\* HC_RESPONSE_TEMPLATE alone, so the chat-completion function is sent the
\* rendered template as its only message
HCAgent_messages(question, docs) ==
    [system |-> None,
     user |-> Format(HC_RESPONSE_TEMPLATE, stuff_documents(docs), question)]

\* SOPAgent._load_vectorstore: the store it returns, or the exception
SOPAgent_load_vectorstore(disk, fail) ==
    IF ~disk.exists
    THEN [vectorstore |-> None, raised |-> Err_SOP_NotFound]
    ELSE IF fail = "load_local" \/ ~disk.loadable
    THEN [vectorstore |-> None, raised |-> Err_LoadLocal]
    ELSE [vectorstore |-> Some(disk.chunks), raised |-> ""]

\* SOPAgent.__init__: the agent, or None when the constructor raises
SOPAgent_new(disk, fail) ==
    IF fail = "SOPAgent" THEN None
    ELSE LET loaded == SOPAgent_load_vectorstore(disk, fail)
         IN  IF loaded.raised # "" THEN None
             ELSE Some([vectorstore |-> loaded.vectorstore[1]])

\* mutant: query without the `if not docs_with_scores` return
SOPAgent_query_no_short_circuit(agent, question) ==
    LET docs == Search(agent.vectorstore, SOP_TOP_K, question)
    IN  {Raised(Err_Embedding, 1, 0, <<>>, -1)}
        \cup {WithLLM(Returned(text, _extract_sources(docs), Len(docs), 1, docs),
                       SOPAgent_messages(question, _format_context(docs)), Some(text)) :
                 text \in LLMTexts}
        \cup {WithLLM(Raised(Err_Chat, 1, 1, docs, Len(docs)),
                       SOPAgent_messages(question, _format_context(docs)), None)}

\* SOPAgent.query
SOPAgent_query(agent, question) ==
    LET docs == Search(agent.vectorstore, SOP_TOP_K, question)
    IN  {Raised(Err_Embedding, 1, 0, <<>>, -1)}
        \cup IF docs = <<>>
             THEN {Returned(SOP_NoInfo(question), <<>>, 0, 0, docs)}
             ELSE {WithLLM(Returned(text, _extract_sources(docs), Len(docs), 1, docs),
                           SOPAgent_messages(question, _format_context(docs)),
                           Some(text)) :
                      text \in LLMTexts}
                  \cup {WithLLM(Raised(Err_Chat, 1, 1, docs, Len(docs)),
                                SOPAgent_messages(question, _format_context(docs)),
                                None)}

\* HCAgent.__init__
HCAgent_new == [vectorstore |-> None, retriever |-> None, qa_chain |-> None]

\* HCAgent.load_vectorstore
HCAgent_load_vectorstore(agent, disk, fail) ==
    IF ~disk.exists
    THEN [agent |-> agent, raised |-> Err_HC_NotFound]
    ELSE IF fail = "load_local" \/ ~disk.loadable
    THEN [agent |-> agent, raised |-> Err_LoadLocal]
    ELSE [agent |-> [agent EXCEPT !.vectorstore = Some(disk.chunks),
                                  !.retriever = Some([k |-> HC_TOP_K])],
          raised |-> ""]

\* HCAgent.create_qa_chain
HCAgent_create_qa_chain(agent, fail) ==
    IF fail = "RetrievalQA"
    THEN [agent |-> agent, raised |-> "RetrievalQA.from_chain_type failed"]
    ELSE [agent |-> [agent EXCEPT !.qa_chain = Some([retriever |-> agent.retriever[1]])],
          raised |-> ""]

\* HCAgent.initialize
HCAgent_initialize(agent, disk, fail) ==
    LET loaded == HCAgent_load_vectorstore(agent, disk, fail)
    IN  IF loaded.raised # "" THEN loaded
        ELSE HCAgent_create_qa_chain(loaded.agent, fail)

\* mutant: query without the `if not self.qa_chain` test, answering nothing
\* when there is no chain
HCAgent_query_no_guard(agent, question) ==
    IF agent.qa_chain = None
    THEN {Returned(<<>>, <<>>, 0, 0, <<>>)}
    ELSE LET docs == Search(agent.vectorstore[1], agent.qa_chain[1].retriever.k, question)
             sources == hc_sources(docs)
         IN  {Raised(Err_Embedding, 1, 0, <<>>, -1)}
             \cup {WithLLM(Returned(text, sources, Len(sources), 1, docs),
                            HCAgent_messages(question, docs), Some(text)) :
                      text \in LLMTexts}
             \cup {WithLLM(Raised(Err_Chat, 1, 1, docs, Len(docs)),
                            HCAgent_messages(question, docs), None)}

\* HCAgent.query: the RetrievalQA "stuff" chain retrieves and then always
\* runs the combine-documents LLM call on what was retrieved
HCAgent_query(agent, question) ==
    IF agent.qa_chain = None
    THEN {Raised(Err_HC_NotInitialized, 0, 0, <<>>, -1)}
    ELSE LET docs == Search(agent.vectorstore[1], agent.qa_chain[1].retriever.k, question)
             sources == hc_sources(docs)
         IN  {Raised(Err_Embedding, 1, 0, <<>>, -1)}
             \cup {WithLLM(Returned(text, sources, Len(sources), 1, docs),
                            HCAgent_messages(question, docs), Some(text)) :
                      text \in LLMTexts}
             \cup {WithLLM(Raised(Err_Chat, 1, 1, docs, Len(docs)),
                            HCAgent_messages(question, docs), None)}

\* HCAgent.ask
HCAgent_ask(agent, question) == HCAgent_query(agent, question)

-----------------------------------------------------------------------------
(* ingest.py: DocumentIngestor.process_document *)

\* the external calls of an upload that can raise, in the order they are made
UploadFailPoints ==
    {"none", "copyfileobj", "loader", "split_documents", "embed",
     "save_local", "HCAgent", "load_local", "RetrievalQA"}

\* the calls an upload of this file makes when none of them fails: a failure
\* can only happen at a call that is made
CallsMade(filename, pages) ==
    {"none", "copyfileobj"}
    \cup (IF LoaderOf(filename) = "unsupported" THEN {}
          ELSE {"loader", "split_documents"}
               \cup (IF chunk_documents(load_document(filename, pages)) = <<>> THEN {}
                     ELSE {"embed", "save_local", "HCAgent", "load_local",
                           "RetrievalQA"}))

\* process_document(file_path, save_path): the vector store path afterwards,
\* the exception raised ("" for none), the number of chunks returned, and
\* the calls it made, in order, that build an index or touch the vector
\* store path (create_vectorstore calls FAISS.from_documents,
\* save_vectorstore calls save_local, which writes into the directory)
process_document(filename, pages, disk, fail) ==
    LET out(d, raised, n, calls) ==
            [disk |-> d, raised |-> raised, chunks |-> n, calls |-> calls]
    IN  IF LoaderOf(filename) = "unsupported"
        THEN out(disk, "Unsupported file type", 0, <<>>)
        ELSE IF fail = "loader"
        THEN out(disk, "document loader failed", 0, <<>>)
        ELSE IF fail = "split_documents"
        THEN out(disk, "text splitter failed", 0, <<>>)
        ELSE LET chunks == chunk_documents(load_document(filename, pages))
             IN  IF chunks = <<>>
                 THEN \* FAISS.from_documents embeds nothing and indexes embeddings[0]
                      out(disk, "list index out of range", 0, <<"from_documents">>)
                 ELSE IF fail = "embed"
                 THEN out(disk, Err_Embedding, 0, <<"from_documents">>)
                 ELSE IF fail = "save_local"
                 THEN out(Corrupt, "save_local failed", 0,
                          <<"from_documents", "save_local">>)
                 ELSE out(Index(chunks), "", Len(chunks),
                          <<"from_documents", "save_local">>)

-----------------------------------------------------------------------------
(* api.py: responses *)

Detail_SOP_NotReady == "SOP Agent not initialized. Please run: python ingest_unified.py sop"
Detail_HC_NotReady == "HC Agent not initialized. Please upload a document first."
Detail_BadExt == "Only PDF and DOCX files are supported"
Detail_NoCreds == "Azure credentials not found. Please create a .env file."

\* what `last` records of a request or call: besides the response, the file
\* or question given, the searches and chat completions made with their
\* request and response, the vector store path and the index calls of an
\* ingestion, and in `report` the status report or the argument of a
\* function called on its own
NoResponse ==
    [op |-> "none", filename |-> <<>>, question |-> 0, code |-> 0, detail |-> "",
     answer |-> <<>>, sources |-> <<>>, chunks |-> -1,
     searches |-> 0, llm_calls |-> 0, docs |-> <<>>, retrieved |-> -1,
     report |-> None, path |-> "", calls |-> <<>>,
     llm_request |-> None, llm_response |-> None]

\* raise HTTPException(status_code, detail)
HTTPException(op, code, detail) ==
    [NoResponse EXCEPT !.op = op, !.code = code, !.detail = detail]

\* the response of an ask handler to what agent.query did
AnswerResponse(op, question, o) ==
    IF o.raised = ""
    THEN [NoResponse EXCEPT !.op = op, !.question = question, !.code = 200,
                            !.answer = o.answer, !.sources = o.sources,
                            !.chunks = o.chunks, !.searches = o.searches,
                            !.llm_calls = o.llm_calls, !.docs = o.docs,
                            !.retrieved = o.retrieved,
                            !.llm_request = o.llm_request,
                            !.llm_response = o.llm_response]
    ELSE [NoResponse EXCEPT !.op = op, !.question = question, !.code = 500,
                            !.detail = o.raised, !.searches = o.searches,
                            !.llm_calls = o.llm_calls, !.docs = o.docs,
                            !.retrieved = o.retrieved,
                            !.llm_request = o.llm_request,
                            !.llm_response = o.llm_response]

\* mutant: an upload handler without the extension test
ValidUploadName_unchecked(filename) == TRUE

\* upload_hc_document, the extension test
ValidUploadName(filename) ==
    \/ EndsWith(filename, <<".", "p", "d", "f">>)
    \/ EndsWith(filename, <<".", "d", "o", "c", "x">>)
    \/ EndsWith(filename, <<".", "d", "o", "c">>)

\* upload_hc_document, the try block: the upload directory, the vector
\* store path and the global hc_agent afterwards, and the response
UploadTry(filename, pages, fail) ==
    LET out(u, p, a, code, detail, n) ==
            [uploads |-> u, hc_disk |-> p.disk, hc_agent |-> a,
             code |-> code, detail |-> detail, chunks |-> n, calls |-> p.calls]
        \* open(file_path, "wb") creates the file before the copy
        saved == uploads \cup {filename}
    IN  IF fail = "copyfileobj"
        THEN out(saved, [disk |-> hc_disk, calls |-> <<>>], hc_agent, 500,
                 "cannot write upload file", -1)
        ELSE LET p == process_document(filename, pages, hc_disk, fail)
             IN  IF p.raised # ""
                 THEN out(saved, p, hc_agent, 500, p.raised, -1)
                 ELSE IF fail = "HCAgent"
                 THEN out(saved, p, hc_agent, 500, "HCAgent() failed", -1)
                 ELSE LET i == HCAgent_initialize(HCAgent_new, p.disk, fail)
                      IN  IF i.raised # ""
                          THEN out(saved, p, Some(i.agent), 500, i.raised, -1)
                          ELSE out(saved, p, Some(i.agent), 200, "", p.chunks)

-----------------------------------------------------------------------------
(* api.py: module state and request handlers *)

Init ==
    /\ phase = "boot"
    /\ env_loaded \in BOOLEAN
    /\ \E scenario \in DiskScenarios :
          sop_disk = scenario[1] /\ hc_disk = scenario[2]
    /\ uploads = {}
    /\ sop_agent = None
    /\ hc_agent = None
    /\ ingestor = None
    /\ loop = Idle
    /\ last = NoResponse

\* startup_event, the HC block: hc_agent is bound to the new object before
\* initialize() runs, and the except clause only prints
startup_hc(disk, fail) ==
    IF ~disk.exists \/ fail = "HCAgent" THEN None
    ELSE Some(HCAgent_initialize(HCAgent_new, disk, fail).agent)

startup_event ==
    /\ phase = "boot"
    /\ phase' = "up"
    /\ \E fail \in {"none", "SOPAgent", "load_local"} :
          sop_agent' = SOPAgent_new(sop_disk, fail)
    /\ \E fail \in {"none", "HCAgent", "load_local", "RetrievalQA"} :
          hc_agent' = startup_hc(hc_disk, fail)
    /\ last' = [NoResponse EXCEPT !.op = "startup"]
    /\ UNCHANGED <<env_loaded, sop_disk, hc_disk, uploads, ingestor, loop>>

\* mutant: a handler that constructs the SOP agent anew for each question
ask_sop_question_reloading ==
    /\ phase = "up"
    /\ \E question \in Questions :
          LET agent == SOPAgent_new(sop_disk, "none")
          IN  /\ sop_agent' = agent
              /\ IF agent = None
                 THEN last' = HTTPException("sop_ask", 400, Detail_SOP_NotReady)
                 ELSE \E o \in SOPAgent_query(agent[1], question) :
                         last' = AnswerResponse("sop_ask", question, o)
    /\ UNCHANGED <<phase, env_loaded, sop_disk, hc_disk, uploads, hc_agent, ingestor, loop>>

ask_sop_question ==
    /\ phase = "up"
    /\ \E question \in Questions :
          IF sop_agent = None
          THEN last' = HTTPException("sop_ask", 400, Detail_SOP_NotReady)
          ELSE \E o \in SOPAgent_query(sop_agent[1], question) :
                  last' = AnswerResponse("sop_ask", question, o)
    /\ UNCHANGED <<phase, env_loaded, sop_disk, hc_disk, uploads, sop_agent, hc_agent, ingestor, loop>>

ask_hc_question ==
    /\ phase = "up"
    /\ \E question \in Questions :
          IF hc_agent = None
          THEN last' = HTTPException("hc_ask", 400, Detail_HC_NotReady)
          ELSE \E o \in HCAgent_query(hc_agent[1], question) :
                  last' = AnswerResponse("hc_ask", question, o)
    /\ UNCHANGED <<phase, env_loaded, sop_disk, hc_disk, uploads, sop_agent, hc_agent, ingestor, loop>>

upload_hc_document ==
    /\ phase = "up"
    /\ \E filename \in FileNames :
          IF ~ValidUploadName(filename)
          THEN /\ last' = [HTTPException("upload", 400, Detail_BadExt)
                              EXCEPT !.filename = filename]
               /\ UNCHANGED <<uploads, hc_disk, hc_agent>>
          ELSE IF ~env_loaded
          THEN /\ last' = [HTTPException("upload", 400, Detail_NoCreds)
                              EXCEPT !.filename = filename]
               /\ UNCHANGED <<uploads, hc_disk, hc_agent>>
          ELSE \E pages \in PageSeqs :
               \E fail \in UploadFailPoints \cap CallsMade(filename, pages) :
                  LET r == UploadTry(filename, pages, fail)
                  IN  /\ uploads' = r.uploads
                      /\ hc_disk' = r.hc_disk
                      /\ hc_agent' = r.hc_agent
                      /\ last' = [HTTPException("upload", r.code, r.detail)
                                     EXCEPT !.filename = filename, !.chunks = r.chunks,
                                            !.calls = r.calls]
    /\ UNCHANGED <<phase, env_loaded, sop_disk, sop_agent, ingestor, loop>>

\* get_status, the fields of SystemStatus that describe the agents
SystemStatus ==
    [sop_agent_ready |-> sop_agent # None,
     hc_agent_ready |-> hc_agent # None,
     sop_index_exists |-> sop_disk.exists,
     hc_index_exists |-> hc_disk.exists,
     env_loaded |-> env_loaded]

get_status ==
    /\ phase = "up"
    /\ last' = [NoResponse EXCEPT !.op = "status", !.code = 200,
                                  !.report = Some(SystemStatus)]
    /\ UNCHANGED <<phase, env_loaded, sop_disk, hc_disk, uploads, sop_agent, hc_agent, ingestor, loop>>

root ==
    /\ phase = "up"
    /\ last' = [NoResponse EXCEPT !.op = "root", !.code = 200]
    /\ UNCHANGED <<phase, env_loaded, sop_disk, hc_disk, uploads, sop_agent, hc_agent, ingestor, loop>>

Next ==
    \/ startup_event
    \/ ask_sop_question
    \/ ask_hc_question
    \/ upload_hc_document
    \/ get_status
    \/ root

Spec == Init /\ [][Next]_vars

-----------------------------------------------------------------------------
(* BaseAgent._extract_sources on its own: the function applied to every    *)
(* sequence of at most MaxDocs chunks drawn from the first six chunks of   *)
(* the sample corpus (two chunks of one file, a second file with the same  *)
(* identifier, a file with another identifier, two files with none), and   *)
(* from the chunk of a file whose text reads "Document ID: Unknown".       *)

\* "Unknown" is a run of [\w-]: the pattern of _extract_metadata captures it
DeclaredUnknownChunk ==
    chunk_documents(<< Doc([document_id |-> Unknown, title |-> <<"T", "5">>],
                           <<"g", ".", "m", "d">>, 1) >>)[1]

ChunkSeqs ==
    UNION {[1..n -> {SampleSopChunks[i] : i \in 1..6} \cup {DeclaredUnknownChunk}] :
           n \in 0..MaxDocs}

InitSources ==
    /\ phase = "sources"
    /\ env_loaded = FALSE
    /\ sop_disk = NoIndex
    /\ hc_disk = NoIndex
    /\ uploads = {}
    /\ sop_agent = None
    /\ hc_agent = None
    /\ ingestor = None
    /\ loop = Idle
    /\ last = NoResponse

extract_sources_call ==
    /\ phase = "sources"
    /\ \E docs \in ChunkSeqs :
          last' = [NoResponse EXCEPT !.op = "extract_sources", !.docs = docs,
                                    !.sources = _extract_sources(docs)]
    /\ UNCHANGED <<phase, env_loaded, sop_disk, hc_disk, uploads, sop_agent, hc_agent, ingestor, loop>>

NextSources == extract_sources_call

SpecSources == InitSources /\ [][NextSources]_vars

-----------------------------------------------------------------------------
(* The classes used from a script, outside the request handlers: the       *)
(* ingestion script of ingest.py (phase "ingest"), and agents.py imported  *)
(* by a program that constructs the agents itself (phase "agents").  The   *)
(* vector store paths start in the states a previous run can have left.    *)

\* DocumentIngestor.__init__
DocumentIngestor_new(agent_type) == [agent_type |-> agent_type, vectorstore |-> None]

\* DocumentIngestor.load_vectorstore: the path is handed to FAISS.load_local
\* without a test that it exists, and self.vectorstore is assigned only when
\* load_local returns
DocumentIngestor_load_vectorstore(ing, disk, fail) ==
    IF ~disk.exists \/ ~disk.loadable \/ fail = "load_local"
    THEN [ingestor |-> ing, raised |-> Err_LoadLocal]
    ELSE [ingestor |-> [ing EXCEPT !.vectorstore = Some(disk.chunks)], raised |-> ""]

\* the vector store path a call names
PathDisk(path) == IF path = "sop" THEN sop_disk ELSE hc_disk

\* a file of a documents folder: its name, what the three labelled patterns
\* capture in its text (markdown), the chunks the splitter cuts from each of
\* its pages, and whether it can be read
File(filename, found, pages, readable) ==
    [filename |-> filename, found |-> found, pages |-> pages, readable |-> readable]

FolderFiles ==
    { File(<<"a", ".", "m", "d">>,
           [document_id |-> <<"S", "O", "P", "-", "1">>, title |-> <<"T", "1">>],
           <<2>>, TRUE),
      File(<<"c", ".", "m", "d">>, [title |-> <<"T", "3">>], <<1>>, FALSE),
      File(<<"e", ".", "m", "d">>, <<>>, <<0>>, TRUE),
      File(Name_a_pdf, <<>>, <<1, 1>>, TRUE),
      File(Name_b_docx, <<>>, <<1>>, FALSE) }

\* largest number of files in a documents folder
MaxFolder == 2

\* the listings of a documents folder: no file name twice
Folders ==
    UNION {{f \in [1..n -> FolderFiles] :
               \A i, j \in 1..n : i # j => f[i].filename # f[j].filename} :
           n \in 0..MaxFolder}

\* Path.glob("*" + suffix)
Glob(files, suffix) == SelectSeq(files, LAMBDA f : EndsWith(f.filename, suffix))

\* a loop over the markdown files that the first failure ends
RECURSIVE load_md_files_aborting(_)
load_md_files_aborting(files) ==
    IF files = <<>> \/ ~Head(files).readable THEN <<>>
    ELSE << Doc(Head(files).found, Head(files).filename, SumSeq(Head(files).pages)) >>
         \o load_md_files_aborting(Tail(files))

\* the loops of load_documents_from_folder: a file whose loading raises is
\* skipped
RECURSIVE load_md_files(_)
load_md_files(files) ==
    IF files = <<>> THEN <<>>
    ELSE LET f == Head(files)
         IN  (IF f.readable
              THEN << Doc(f.found, f.filename, SumSeq(f.pages)) >>
              ELSE <<>>)
             \o load_md_files(Tail(files))

RECURSIVE load_hc_files(_)
load_hc_files(files) ==
    IF files = <<>> THEN <<>>
    ELSE LET f == Head(files)
         IN  (IF f.readable /\ LoaderOf(f.filename) # "unsupported"
              THEN load_document(f.filename, f.pages)
              ELSE <<>>)
             \o load_hc_files(Tail(files))

\* DocumentIngestor.load_documents_from_folder
load_documents_from_folder(ing, files) ==
    IF ing.agent_type = "SOP"
    THEN load_md_files(Glob(files, <<".", "m", "d">>))
    ELSE load_hc_files(Glob(files, <<".", "p", "d", "f">>)
                       \o Glob(files, <<".", "d", "o", "c", "x">>)
                       \o Glob(files, <<".", "d", "o", "c">>))

\* the calls of process_folder that can raise
FolderFailPoints == {"none", "split_documents", "embed", "save_local"}

\* the calls process_folder makes on this folder when none of them fails
FolderCallsMade(ing, files) ==
    LET documents == load_documents_from_folder(ing, files)
    IN  {"none"}
        \cup (IF documents = <<>> THEN {}
              ELSE {"split_documents"}
                   \cup (IF chunk_documents(documents) = <<>> THEN {}
                         ELSE {"embed", "save_local"}))

\* DocumentIngestor.process_folder: the ingestor and the vector store path
\* afterwards, the exception raised ("" for none), the number of documents
\* and of chunks, and the calls made that build an index or touch the path
process_folder(ing, files, disk, fail) ==
    LET out(i, d, raised, docs, n, calls) ==
            [ingestor |-> i, disk |-> d, raised |-> raised, documents |-> docs,
             chunks |-> n, calls |-> calls]
        documents == load_documents_from_folder(ing, files)
        chunks == chunk_documents(documents)
        deleted == IF disk.exists THEN <<"rmtree">> ELSE <<>>
        built == [ing EXCEPT !.vectorstore = Some(chunks)]
    IN  IF documents = <<>>
        THEN out(ing, disk, "", 0, 0, <<>>)
        ELSE IF fail = "split_documents"
        THEN out(ing, disk, "text splitter failed", Len(documents), 0, <<>>)
        ELSE IF chunks = <<>>
        THEN out(ing, NoIndex, "list index out of range", Len(documents), 0,
                 deleted \o <<"from_documents">>)
        ELSE IF fail = "embed"
        THEN out(ing, NoIndex, Err_Embedding, Len(documents), 0,
                 deleted \o <<"from_documents">>)
        ELSE IF fail = "save_local"
        THEN out(built, Corrupt, "save_local failed", Len(documents), 0,
                 deleted \o <<"from_documents", "save_local">>)
        ELSE out(built, Index(chunks), "", Len(documents), Len(chunks),
                 deleted \o <<"from_documents", "save_local">>)

\* what the pattern of a label captures in a text: nothing when the label
\* does not occur.  An identifier is a run of [\w-], a version a run of
\* [\d.], a title the rest of a line: "Title: " at the end of a text
\* captures the blank.
IdCaptures ==
    {None} \cup {Some(id) : id \in {<<"S", "O", "P", "-", "1">>, <<"W", "I", "-", "2">>,
                                     <<"Q", "A", "-", "3">>, <<"W", "I", "S", "O", "P">>,
                                     <<"Q", "A", "W", "I">>, <<"s", "o", "p">>,
                                     <<"X", "9">>}}
TitleCaptures ==
    {None} \cup {Some(t) : t \in {<<"T", "1">>, <<" ", "T", " ">>, <<" ">>}}
VersionCaptures == {None, Some(<<"1", ".", "0">>)}

\* the captures as the mapping label -> captured text
Found(id, title, version) ==
    [k \in (IF id = None THEN {} ELSE {"document_id"})
           \cup (IF title = None THEN {} ELSE {"title"})
           \cup (IF version = None THEN {} ELSE {"version"}) |->
        CASE k = "document_id" -> id[1]
          [] k = "title" -> title[1]
          [] OTHER -> version[1]]

\* largest number of documents in a batch given to chunk_documents
MaxBatch == 2

\* the documents of a batch: markdown documents of the sample corpus and a
\* PDF page without text
BatchDocs ==
    {SampleSopDocs[i] : i \in 1..4}
    \cup {[metadata |-> [source |-> Name_a_pdf, page |-> 0], pieces |-> 0]}

Batches == UNION {[1..n -> BatchDocs] : n \in 0..MaxBatch}

\* the ingestion script works on either domain; the script that constructs
\* the agents and the calls of single functions use no ingestor state, and
\* the latter no vector store path
InitIngest ==
    /\ phase \in {"ingest", "agents", "functions"}
    /\ env_loaded = TRUE
    /\ \E scenario \in DiskScenarios :
          /\ phase = "functions" => scenario = <<NoIndex, NoIndex>>
          /\ sop_disk = scenario[1]
          /\ hc_disk = scenario[2]
    /\ uploads = {}
    /\ sop_agent = None
    /\ hc_agent = None
    /\ \E t \in {"SOP", "HC"} :
          /\ phase # "ingest" => t = "SOP"
          /\ ingestor = Some(DocumentIngestor_new(t))
    /\ loop = Idle
    /\ last = NoResponse

\* sop_agent = SOPAgent()
SOPAgent_script ==
    /\ phase = "agents"
    /\ \E fail \in {"none", "load_local"} :
          LET loaded == SOPAgent_load_vectorstore(sop_disk, fail)
              agent == SOPAgent_new(sop_disk, fail)
          IN  /\ sop_agent' = IF agent = None THEN sop_agent ELSE agent
              /\ last' = [NoResponse EXCEPT !.op = "SOPAgent", !.path = "sop",
                                            !.detail = loaded.raised]
    /\ UNCHANGED <<phase, env_loaded, sop_disk, hc_disk, uploads, hc_agent, ingestor, loop>>

\* hc_agent = HCAgent()
HCAgent_script ==
    /\ phase = "agents"
    /\ hc_agent' = Some(HCAgent_new)
    /\ last' = [NoResponse EXCEPT !.op = "HCAgent", !.path = "hc"]
    /\ UNCHANGED <<phase, env_loaded, sop_disk, hc_disk, uploads, sop_agent, ingestor, loop>>

\* hc_agent.load_vectorstore()
HCAgent_load_vectorstore_script ==
    /\ phase = "agents"
    /\ hc_agent # None
    /\ \E fail \in {"none", "load_local"} :
          LET loaded == HCAgent_load_vectorstore(hc_agent[1], hc_disk, fail)
          IN  /\ hc_agent' = Some(loaded.agent)
              /\ last' = [NoResponse EXCEPT !.op = "HCAgent.load_vectorstore",
                                            !.path = "hc", !.detail = loaded.raised]
    /\ UNCHANGED <<phase, env_loaded, sop_disk, hc_disk, uploads, sop_agent, ingestor, loop>>

\* ingestor.load_vectorstore(load_path)
DocumentIngestor_load_vectorstore_script ==
    /\ phase = "ingest"
    /\ \E path \in {"sop", "hc"}, fail \in {"none", "load_local"} :
          LET loaded == DocumentIngestor_load_vectorstore(ingestor[1], PathDisk(path), fail)
          IN  /\ ingestor' = Some(loaded.ingestor)
              /\ last' = [NoResponse EXCEPT !.op = "DocumentIngestor.load_vectorstore",
                                            !.path = path, !.detail = loaded.raised]
    /\ UNCHANGED <<phase, env_loaded, sop_disk, hc_disk, uploads, sop_agent, hc_agent, loop>>

\* ingestor.process_folder()
process_folder_script ==
    /\ phase = "ingest"
    /\ \E files \in Folders :
        \E fail \in FolderFailPoints \cap FolderCallsMade(ingestor[1], files) :
          LET sop == ingestor[1].agent_type = "SOP"
              r == process_folder(ingestor[1], files, IF sop THEN sop_disk ELSE hc_disk,
                                  fail)
          IN  /\ ingestor' = Some(r.ingestor)
              /\ sop_disk' = IF sop THEN r.disk ELSE sop_disk
              /\ hc_disk' = IF sop THEN hc_disk ELSE r.disk
              /\ last' = [NoResponse EXCEPT !.op = "process_folder",
                                            !.path = IF sop THEN "sop" ELSE "hc",
                                            !.detail = r.raised,
                                            !.retrieved = r.documents,
                                            !.chunks = r.chunks,
                                            !.calls = r.calls]
    /\ UNCHANGED <<phase, env_loaded, uploads, sop_agent, hc_agent, loop>>

\* metadata = ingestor._extract_metadata(content, file_path)
_extract_metadata_call ==
    /\ phase = "functions"
    /\ \E id \in IdCaptures, title \in TitleCaptures, version \in VersionCaptures,
          filename \in {<<"a", ".", "m", "d">>, <<"c", ".", "m", "d">>} :
          LET found == Found(id, title, version)
          IN  last' = [NoResponse EXCEPT
                          !.op = "_extract_metadata", !.filename = filename,
                          !.report = Some(found),
                          !.docs = << [page_content |-> <<filename, 1>>,
                                       metadata |-> _extract_metadata(found, filename)] >>]
    /\ UNCHANGED <<phase, env_loaded, sop_disk, hc_disk, uploads, sop_agent, hc_agent, ingestor, loop>>

\* chunks = ingestor.chunk_documents(documents)
chunk_documents_call ==
    /\ phase = "functions"
    /\ \E documents \in Batches :
          last' = [NoResponse EXCEPT !.op = "chunk_documents",
                                    !.report = Some(documents),
                                    !.docs = chunk_documents(documents)]
    /\ UNCHANGED <<phase, env_loaded, sop_disk, hc_disk, uploads, sop_agent, hc_agent, ingestor, loop>>

\* documents = DocumentIngestor(agent_type).load_documents_from_folder()
load_documents_from_folder_call ==
    /\ phase = "functions"
    /\ \E agent_type \in {"SOP", "HC"}, files \in Folders :
          last' = [NoResponse EXCEPT
                      !.op = "load_documents_from_folder",
                      !.path = IF agent_type = "SOP" THEN "sop" ELSE "hc",
                      !.report = Some(files),
                      !.docs = load_documents_from_folder(DocumentIngestor_new(agent_type),
                                                          files)]
    /\ UNCHANGED <<phase, env_loaded, sop_disk, hc_disk, uploads, sop_agent, hc_agent, ingestor, loop>>

NextIngest ==
    \/ _extract_metadata_call
    \/ load_documents_from_folder_call
    \/ chunk_documents_call
    \/ process_folder_script
    \/ SOPAgent_script
    \/ HCAgent_script
    \/ HCAgent_load_vectorstore_script
    \/ DocumentIngestor_load_vectorstore_script

SpecIngest == InitIngest /\ [][NextIngest]_vars

-----------------------------------------------------------------------------
(* The server together with the ingestion script.  `python ingest.py sop`  *)
(* is a process of its own: it can run while the server is up, and it      *)
(* rebuilds, removes or spoils the index at the SOP vector store path      *)
(* without the server taking part.                                         *)

\* a server with credentials, started next to the SOP index of the sample
\* corpus and no HR index
InitReingest ==
    /\ Init
    /\ env_loaded = TRUE
    /\ sop_disk = Index(SubSeq(SampleSopChunks, 1, MaxIdx))
    /\ hc_disk = NoIndex

\* the listings of the SOP documents folder: files that no pattern of the
\* domain matches play no part
SopFolders ==
    {files \in Folders : Glob(files, <<".", "m", "d">>) = files}

\* DocumentIngestor(agent_type="SOP").process_folder() in the other process;
\* one run is followed, on the index the server started next to
sop_ingestion_script ==
    /\ phase = "up"
    /\ sop_disk = Index(SubSeq(SampleSopChunks, 1, MaxIdx))
    /\ \E files \in SopFolders :
        \E fail \in FolderFailPoints \cap FolderCallsMade(DocumentIngestor_new("SOP"), files) :
          sop_disk' = process_folder(DocumentIngestor_new("SOP"), files, sop_disk, fail).disk
    /\ UNCHANGED <<phase, env_loaded, hc_disk, uploads, sop_agent, hc_agent, ingestor, loop,
                   last>>

NextReingest ==
    \/ Next
    \/ sop_ingestion_script

SpecReingest == InitReingest /\ [][NextReingest]_vars

-----------------------------------------------------------------------------
(* api.py on the event loop.  uvicorn.run(app) serves every request on one *)
(* event loop.  Each handler is an `async def` that calls agent.query or   *)
(* process_document directly: these make their network calls (embedding,   *)
(* chat completion) with blocking clients and the handler has no await, so *)
(* the coroutine keeps the loop from its first statement to its return.    *)
(* The answers themselves are those of Spec; here only the position of the *)
(* running handler and the waiting requests are followed.                  *)

\* number of clients that send requests of one kind
MaxClients == 2

RequestKinds == {"sop_ask", "hc_ask", "upload"}

Requests == [kind : RequestKinds, client : 1..MaxClients]

\* the network calls a handler makes on Ready agents, in order: an ask
\* embeds the question and then asks for the chat completion, an upload
\* embeds the chunks of the file
NetworkCalls(kind) ==
    IF kind = "upload" THEN <<"embedding">> ELSE <<"embedding", "chat">>

\* the server after a startup that loaded both agents
InitLoop ==
    /\ phase = "serving"
    /\ env_loaded = TRUE
    /\ sop_disk = Index(SubSeq(SampleSopChunks, 1, MaxIdx))
    /\ hc_disk = Index(chunk_documents(load_document(Name_a_pdf, [i \in 1..MaxIdx |-> 1])))
    /\ uploads = {}
    /\ sop_agent = SOPAgent_new(sop_disk, "none")
    /\ hc_agent = startup_hc(hc_disk, "none")
    /\ ingestor = None
    /\ loop = Idle
    /\ last = NoResponse

\* a client sends a request: it waits until the loop runs its handler
request_arrives ==
    /\ phase = "serving"
    /\ \E r \in Requests :
          /\ r \notin loop.waiting
          /\ IF loop.running = None THEN TRUE ELSE loop.running[1].request # r
          /\ loop' = [loop EXCEPT !.waiting = @ \cup {r}]
    /\ UNCHANGED <<phase, env_loaded, sop_disk, hc_disk, uploads, sop_agent, hc_agent,
                   ingestor, last>>

\* the loop takes a waiting request when it runs no handler; the handler
\* runs up to its first network call and blocks in it
handler_starts ==
    /\ phase = "serving"
    /\ loop.running = None
    /\ \E r \in loop.waiting :
          loop' = [running |-> Some([request |-> r, call |-> 1]),
                   waiting |-> loop.waiting \ {r}]
    /\ UNCHANGED <<phase, env_loaded, sop_disk, hc_disk, uploads, sop_agent, hc_agent,
                   ingestor, last>>

\* the network call of the running handler returns or raises: the handler
\* goes on to its next network call, or returns its response and frees the
\* loop
network_call_returns ==
    /\ phase = "serving"
    /\ loop.running # None
    /\ LET h == loop.running[1]
           calls == NetworkCalls(h.request.kind)
       IN  \E ok \in BOOLEAN :
              IF ok /\ h.call < Len(calls)
              THEN /\ loop' = [loop EXCEPT !.running = Some([h EXCEPT !.call = @ + 1])]
                   /\ UNCHANGED last
              ELSE /\ loop' = [loop EXCEPT !.running = None]
                   /\ last' = [NoResponse EXCEPT !.op = h.request.kind,
                                                 !.code = IF ok THEN 200 ELSE 500]
    /\ UNCHANGED <<phase, env_loaded, sop_disk, hc_disk, uploads, sop_agent, hc_agent,
                   ingestor>>

NextLoop ==
    \/ request_arrives
    \/ handler_starts
    \/ network_call_returns

SpecLoop == InitLoop /\ [][NextLoop]_vars

-----------------------------------------------------------------------------
(* Agent states *)

\* the SOP agent is Ready when the reference is set: its constructor loads
\* the index or raises
SOPReady == sop_agent # None

\* the HC agent is Ready when the reference designates an agent whose
\* initialize() completed, so that it holds a retrieval chain
HCReady == hc_agent # None /\ hc_agent[1].qa_chain # None

-----------------------------------------------------------------------------
(* Properties *)

\* C1: an /hc/upload request that fails leaves the HC agent Ready exactly
\* when it was Ready before the request.
C1_FailedUploadKeepsReadiness ==
    [][(last'.op = "upload" /\ last'.code # 200) => (HCReady' <=> HCReady)]_vars

\* C2: query on an HC agent without a retrieval chain raises the
\* not-initialised error: no result, no search, no chat completion, and the
\* agent is left as it was.
C2_QueryNotReadyRaises ==
    [][(last'.op = "hc_ask" /\ hc_agent # None /\ hc_agent[1].qa_chain = None)
        => /\ last'.detail = Err_HC_NotInitialized
           /\ last'.code # 200
           /\ last'.answer = <<>> /\ last'.sources = <<>> /\ last'.chunks = -1
           /\ last'.searches = 0
           /\ last'.llm_calls = 0
           /\ hc_agent' = hc_agent]_vars

\* C2 witness: an ask reached query on an agent whose initialize() failed.
C2_Witness ==
    /\ last.op = "hc_ask"
    /\ last.detail = Err_HC_NotInitialized
    /\ hc_agent # None
    /\ hc_agent[1].qa_chain = None

\* C3: an ask for a domain whose agent is not Ready is answered 400 with the
\* remediation hint.
C3_NotReadyAskIsClientError ==
    [][/\ (last'.op = "sop_ask" /\ ~SOPReady)
            => (last'.code = 400 /\ last'.detail = Detail_SOP_NotReady)
       /\ (last'.op = "hc_ask" /\ ~HCReady)
            => (last'.code = 400 /\ last'.detail = Detail_HC_NotReady)]_vars

\* C4: when the search of a SOP query returns no chunk, the query returns
\* the "no information found" result with no source and chunk count 0, and
\* the chat-completion function is not invoked.
C4_SopShortCircuit ==
    (last.op = "sop_ask" /\ last.retrieved = 0)
        => /\ last.code = 200
           /\ last.answer = <<"No relevant SOP information found for: ", last.question>>
           /\ last.sources = <<>>
           /\ last.chunks = 0
           /\ last.llm_calls = 0

\* C4 witness: a SOP query whose search returned nothing was answered.
C4_Witness ==
    /\ last.op = "sop_ask"
    /\ last.retrieved = 0
    /\ last.searches = 1
    /\ last.code = 200

\* C5: when the search of a query put to a Ready HC agent returns no chunk,
\* the chat-completion function is not invoked.
C5_HcShortCircuit ==
    (last.op = "hc_ask" /\ last.retrieved = 0)
        => (last.code = 200 /\ last.llm_calls = 0)

\* the identifier a citation shows for a chunk
IdOf(doc) == Get(doc.metadata, "document_id", Unknown)

\* the place of the first chunk of `docs` that carries identifier `id`
FirstIndex(docs, id) ==
    CHOOSE i \in 1..Len(docs) :
        IdOf(docs[i]) = id /\ \A j \in 1..(i - 1) : IdOf(docs[j]) # id

NoDuplicateIds(sources) ==
    \A i, j \in 1..Len(sources) :
        i # j => sources[i].document_id # sources[j].document_id

\* C6: extract_sources lists each distinct identifier of the chunks once, in
\* the order of first occurrence, with the title, category and file name of
\* the first chunk that carries it.
C6_ExtractSourcesFirstOccurrence ==
    last.op = "extract_sources"
        => LET docs == last.docs
               S == last.sources
           IN  /\ NoDuplicateIds(S)
               /\ {S[i].document_id : i \in 1..Len(S)} = {IdOf(docs[j]) : j \in 1..Len(docs)}
               /\ \A i, j \in 1..Len(S) :
                     i < j => FirstIndex(docs, S[i].document_id)
                                 < FirstIndex(docs, S[j].document_id)
               /\ \A i \in 1..Len(S) :
                     LET first == docs[FirstIndex(docs, S[i].document_id)]
                     IN  /\ S[i].title = Get(first.metadata, "title", Unknown)
                         /\ S[i].doc_type = Get(first.metadata, "doc_type", Doc_Type_Doc)
                         /\ S[i].filename = Get(first.metadata, "filename", Unknown)

\* C6 witness: chunks of documents A, B, A of different files gave the
\* citations A, B, with A's file name that of the first chunk.
C6_Witness ==
    /\ last.op = "extract_sources"
    /\ Len(last.docs) = 3
    /\ IdOf(last.docs[1]) = IdOf(last.docs[3])
    /\ IdOf(last.docs[1]) # IdOf(last.docs[2])
    /\ last.docs[1].metadata.filename # last.docs[3].metadata.filename
    /\ Len(last.sources) = 2
    /\ last.sources[1].document_id = IdOf(last.docs[1])
    /\ last.sources[1].filename = last.docs[1].metadata.filename
    /\ last.sources[2].document_id = IdOf(last.docs[2])

\* C7: the source list of every successful ask, SOP or HC, holds no two
\* citations with the same identifier.
C7_AskSourcesDeduplicated ==
    (last.op \in {"sop_ask", "hc_ask"} /\ last.code = 200)
        => NoDuplicateIds(last.sources)

\* C8: in every successful ask the chunk count is the number of chunks the
\* search returned, at most 4, and there are no more sources than chunks.
C8_ChunkCount ==
    (last.op \in {"sop_ask", "hc_ask"} /\ last.code = 200)
        => /\ last.chunks = last.retrieved
           /\ last.chunks = Len(last.docs)
           /\ last.chunks <= 4
           /\ Len(last.sources) <= last.chunks

\* C8 witness: a SOP ask over an index of more than 4 chunks returned chunk
\* count 4 and fewer sources than chunks.
C8_Witness ==
    /\ last.op = "sop_ask"
    /\ last.code = 200
    /\ sop_agent # None
    /\ Len(sop_agent[1].vectorstore) > 4
    /\ last.chunks = 4
    /\ Len(last.sources) < last.chunks

\* the file name ends in .pdf, .doc or .docx
SupportedExtension(filename) ==
    \E ext \in {<<".", "p", "d", "f">>, <<".", "d", "o", "c">>, <<".", "d", "o", "c", "x">>} :
        EndsWith(filename, ext)

\* C9: an upload whose file name has no supported extension is answered 400
\* and changes neither the upload directory, nor the persisted HR index, nor
\* the HC agent reference.
C9_UnsupportedExtensionRejected ==
    [][(last'.op = "upload" /\ ~SupportedExtension(last'.filename))
        => /\ last'.code = 400
           /\ uploads' = uploads
           /\ hc_disk' = hc_disk
           /\ hc_agent' = hc_agent]_vars

\* C9 witness: a .txt upload was rejected while credentials were configured.
C9_Witness ==
    /\ last.op = "upload"
    /\ last.filename = Name_c_txt
    /\ last.code = 400
    /\ last.detail = Detail_BadExt
    /\ env_loaded

\* C10: /status reports an agent ready exactly when it is Ready, and an
\* index as existing exactly when its path exists.
C10_StatusIsTruthful ==
    last.op = "status"
        => /\ last.report[1].sop_agent_ready <=> SOPReady
           /\ last.report[1].hc_agent_ready <=> HCReady
           /\ last.report[1].sop_index_exists <=> sop_disk.exists
           /\ last.report[1].hc_index_exists <=> hc_disk.exists

\* the index reference of an HCAgent object, None while there is no object
VectorstoreOf(ref) == IF ref = None THEN None ELSE ref[1].vectorstore

\* C11: every attempt to load a persisted index from a path that does not
\* exist, by SOPAgent._load_vectorstore, by HCAgent.load_vectorstore or by
\* DocumentIngestor.load_vectorstore, fails with the not-found error and
\* leaves the index reference of the caller as it was.
C11_LoadMissingPathNotFound ==
    [][(/\ last'.op \in {"SOPAgent", "HCAgent.load_vectorstore",
                         "DocumentIngestor.load_vectorstore"}
        /\ ~PathDisk(last'.path).exists)
        => /\ last'.detail \in {Err_SOP_NotFound, Err_HC_NotFound}
           /\ sop_agent' = sop_agent
           /\ VectorstoreOf(hc_agent') = VectorstoreOf(hc_agent)
           /\ VectorstoreOf(ingestor') = VectorstoreOf(ingestor)]_vars

\* C12: in every query of either agent that invokes the chat-completion
\* function, the request is the system instruction of the domain
\* (SOP_SYSTEM_PROMPT, HC_SYSTEM_PROMPT) together with the response template
\* of the domain rendered with the context of the retrieved chunks and the
\* question, and the answer returned is the generated text.
C12_TwoPartInstruction ==
    (last.op \in {"sop_ask", "hc_ask"} /\ last.llm_calls = 1)
        => /\ last.llm_request # None
           /\ LET request == last.llm_request[1]
                  sop == last.op = "sop_ask"
              IN  /\ request.system =
                        Some(IF sop THEN SOP_SYSTEM_PROMPT ELSE HC_SYSTEM_PROMPT)
                  /\ request.user.template =
                        (IF sop THEN SOP_RESPONSE_TEMPLATE ELSE HC_RESPONSE_TEMPLATE)
                  /\ request.user.question = last.question
                  /\ Len(request.user.context) = Len(last.docs)
                  /\ \A i \in 1..Len(last.docs) :
                        request.user.context[i].page_content = last.docs[i].page_content
                  /\ sop => request.user.context = _format_context(last.docs)
           /\ last.code = 200 => last.answer = last.llm_response[1]

\* the files whose chunks an index holds
SourcesOf(disk) == {disk.chunks[i].metadata.source : i \in 1..Len(disk.chunks)}

\* C13: after every successful /hc/upload the rebuilt HR index holds the
\* chunks of every HR document uploaded so far: a file of the upload
\* directory whose chunks the index held before the upload still has chunks
\* in the index after it.
C13_UploadRebuildsWholeCorpus ==
    [][(last'.op = "upload" /\ last'.code = 200)
        => \A f \in SourcesOf(hc_disk) \cap uploads : f \in SourcesOf(hc_disk')]_vars

\* the place of the first call `name` in `calls`, 0 when there is none
FirstCall(calls, name) ==
    IF \E i \in 1..Len(calls) : calls[i] = name
    THEN CHOOSE i \in 1..Len(calls) :
            calls[i] = name /\ \A j \in 1..(i - 1) : calls[j] # name
    ELSE 0

\* C14: whenever an HR upload (process_document) or process_folder builds a
\* new index for a vector store path that holds one, the directory at that
\* path has been deleted before the new index is built.
C14_DeleteBeforeRebuild ==
    [][(/\ last'.op \in {"upload", "process_folder"}
        /\ FirstCall(last'.calls, "from_documents") > 0
        /\ (IF last'.op = "upload" THEN hc_disk ELSE PathDisk(last'.path)).exists)
        => /\ FirstCall(last'.calls, "rmtree") > 0
           /\ FirstCall(last'.calls, "rmtree")
                 < FirstCall(last'.calls, "from_documents")]_vars

\* C15: metadata extraction never yields an empty field: identifier, title
\* and version are each absent from the mapping, exactly when their label
\* does not match, or non-empty; source and filename are always present;
\* and format_context and extract_sources show an absent identifier or
\* title as "Unknown".
C15_NoEmptyMetadataField ==
    last.op = "_extract_metadata"
        => LET metadata == last.docs[1].metadata
               found == last.report[1]
               context == _format_context(last.docs)
               sources == _extract_sources(last.docs)
           IN  /\ \A k \in {"document_id", "title", "version"} :
                     /\ k \in DOMAIN metadata <=> k \in DOMAIN found
                     /\ k \in DOMAIN metadata => metadata[k] # <<>>
               /\ {"source", "filename"} \subseteq DOMAIN metadata
               /\ "document_id" \notin DOMAIN metadata
                     => context[1].doc_id = Unknown /\ sources[1].document_id = Unknown
               /\ "title" \notin DOMAIN metadata
                     => context[1].title = Unknown /\ sources[1].title = Unknown

\* C16: the category is a function of the extracted identifier with a fixed
\* priority: Standard Operating Procedure when it contains "SOP", otherwise
\* Work Instruction when it contains "WI", otherwise Quality Assurance
\* Document when it contains "QA", otherwise, and when there is no
\* identifier, "Document"; every mapping carries one of the four.
C16_CategoryByPriority ==
    last.op = "_extract_metadata"
        => LET metadata == last.docs[1].metadata
               id == IF "document_id" \in DOMAIN metadata
                     THEN metadata.document_id ELSE <<>>
               sop == Contains(id, <<"S", "O", "P">>)
               wi == Contains(id, <<"W", "I">>)
               qa == Contains(id, <<"Q", "A">>)
           IN  /\ "doc_type" \in DOMAIN metadata
               /\ metadata.doc_type \in {Doc_Type_SOP, Doc_Type_WI, Doc_Type_QA, Doc_Type_Doc}
               /\ sop => metadata.doc_type = Doc_Type_SOP
               /\ (~sop /\ wi) => metadata.doc_type = Doc_Type_WI
               /\ (~sop /\ ~wi /\ qa) => metadata.doc_type = Doc_Type_QA
               /\ (~sop /\ ~wi /\ ~qa) => metadata.doc_type = Doc_Type_Doc

\* C16 witness: an identifier that contains both "WI" and "SOP" was given
\* the category Standard Operating Procedure.
C16_Witness ==
    /\ last.op = "_extract_metadata"
    /\ "document_id" \in DOMAIN last.docs[1].metadata
    /\ Contains(last.docs[1].metadata.document_id, <<"W", "I">>)
    /\ Contains(last.docs[1].metadata.document_id, <<"S", "O", "P">>)
    /\ last.docs[1].metadata.doc_type = Doc_Type_SOP

\* the document of a batch that the i-th chunk is cut from
RECURSIVE ParentOf(_, _)
ParentOf(batch, i) ==
    IF i <= Head(batch).pieces THEN 1
    ELSE 1 + ParentOf(Tail(batch), i - Head(batch).pieces)

\* C17: chunk_documents numbers the n chunks of a batch 0, 1, ..., n-1 in
\* output order across the whole batch, and every chunk carries the whole
\* metadata of the document it is cut from plus that number.
C17_BatchWideChunkNumbers ==
    last.op = "chunk_documents"
        => LET batch == last.report[1]
               chunks == last.docs
           IN  /\ Len(chunks) = SumSeq([d \in 1..Len(batch) |-> batch[d].pieces])
               /\ \A i \in 1..Len(chunks) :
                     LET parent == batch[ParentOf(batch, i)].metadata
                         metadata == chunks[i].metadata
                     IN  /\ metadata.chunk_id = i - 1
                         /\ DOMAIN metadata = DOMAIN parent \cup {"chunk_id"}
                         /\ \A k \in DOMAIN parent : metadata[k] = parent[k]

\* C17 witness: in a batch of two documents the first chunk of the second
\* document was numbered after the two chunks of the first.
C17_Witness ==
    /\ last.op = "chunk_documents"
    /\ Len(last.report[1]) = 2
    /\ last.report[1][1].pieces = 2
    /\ Len(last.docs) >= 3
    /\ last.docs[3].metadata.chunk_id = 2
    /\ last.docs[3].metadata.source = last.report[1][2].metadata.source

\* every chunk of the index carries the four fields of a citation
CarriesCitation(disk) ==
    \A i \in 1..Len(disk.chunks) :
        {"document_id", "title", "doc_type", "filename"}
            \subseteq DOMAIN disk.chunks[i].metadata

\* C18: every chunk stored in the index of either domain, whatever the type
\* of the file it comes from, carries an identifier, a title, a category
\* and a file name in its metadata.
C18_ChunksCarryCitation ==
    /\ (last.op = "upload" /\ last.code = 200) => CarriesCitation(hc_disk)
    /\ (last.op = "process_folder" /\ last.detail = "" /\ last.chunks > 0)
          => CarriesCitation(PathDisk(last.path))

\* the index and the retrieval chain of the agent are loaded
SOPLoaded == sop_agent # None
HCLoaded ==
    /\ hc_agent # None
    /\ hc_agent[1].vectorstore # None
    /\ hc_agent[1].qa_chain # None

\* C19: after the startup event each domain is either Ready, its reference
\* set and its index loaded, or NotReady, its reference unset; and a domain
\* is Ready only if its vector store path existed at startup and loading it
\* succeeded.
C19_StartupReadyOrNotReady ==
    last.op = "startup"
        => /\ sop_agent = None \/ SOPLoaded
           /\ hc_agent = None \/ HCLoaded
           /\ SOPLoaded => (sop_disk.exists /\ sop_disk.loadable)
           /\ HCLoaded => (hc_disk.exists /\ hc_disk.loadable)

\* C20: an upload replaces the global HC reference only by an agent whose
\* new index and retrieval chain are loaded, and no /hc/ask or /status
\* request that follows an upload finds the reference designating an agent
\* whose index or chain is not loaded.  (A handler has no await, so requests
\* interleave with an upload only before or after it.)
C20_SwapAfterLoad ==
    [][/\ (last'.op = "upload" /\ hc_agent' # hc_agent) => HCLoaded'
       /\ (/\ last.op = "upload"
           /\ last'.op \in {"hc_ask", "status"}
           /\ hc_agent # None) => HCLoaded]_vars

\* C21: while a handler is suspended in a network call, a waiting ask can
\* make progress: the loop can start its handler; no handler holds the loop
\* for the duration of a network call.
C21_NonBlockingAsk ==
    (/\ loop.running # None
     /\ \E r \in loop.waiting : r.kind \in {"sop_ask", "hc_ask"})
        => ENABLED handler_starts

\* the file is one the domain's folder loading takes up
Matched(path, f) ==
    IF path = "sop"
    THEN EndsWith(f.filename, <<".", "m", "d">>)
    ELSE \/ EndsWith(f.filename, <<".", "p", "d", "f">>)
         \/ EndsWith(f.filename, <<".", "d", "o", "c", "x">>)
         \/ EndsWith(f.filename, <<".", "d", "o", "c">>)

\* loading the file on its own succeeds
LoadsAlone(path, f) ==
    f.readable /\ (path = "hc" => LoaderOf(f.filename) # "unsupported")

\* the documents loading the file on its own gives
DocumentsOf(path, f) ==
    IF path = "sop"
    THEN << Doc(f.found, f.filename, SumSeq(f.pages)) >>
    ELSE load_document(f.filename, f.pages)

Range(seq) == {seq[i] : i \in 1..Len(seq)}

\* C22: load_documents_from_folder returns, for either domain, the documents
\* of every file of the folder that loads, and nothing of a file whose
\* loading fails: one failure skips only that file.
C22_BestEffortBatch ==
    last.op = "load_documents_from_folder" =>
        LET files == last.report[1]
            good == {i \in 1..Len(files) :
                        Matched(last.path, files[i]) /\ LoadsAlone(last.path, files[i])}
        IN  /\ Range(last.docs)
                 = UNION {Range(DocumentsOf(last.path, files[i])) : i \in good}
            /\ Len(last.docs)
                 = SumSeq([i \in 1..Len(files) |->
                             IF i \in good THEN Len(DocumentsOf(last.path, files[i]))
                             ELSE 0])

\* a folder whose first file cannot be read and whose second can: the
\* second file's document is returned
C22_Witness ==
    /\ last.op = "load_documents_from_folder"
    /\ Len(last.report[1]) = 2
    /\ Matched(last.path, last.report[1][1])
    /\ ~last.report[1][1].readable
    /\ Matched(last.path, last.report[1][2])
    /\ LoadsAlone(last.path, last.report[1][2])
    /\ last.docs = DocumentsOf(last.path, last.report[1][2])
    /\ last.docs # <<>>

\* C23: when process_folder fails while embedding the chunks or saving the
\* new index, the index that was persisted at the domain's path before the
\* call, when it was there and loadable, is on disk unchanged afterwards.
C23_OldIndexSurvivesFailure ==
    [][(/\ last'.op = "process_folder"
        /\ last'.detail \in {Err_Embedding, "save_local failed"}
        /\ PathDisk(last'.path).exists
        /\ PathDisk(last'.path).loadable)
           => IF last'.path = "sop" THEN sop_disk' = sop_disk ELSE hc_disk' = hc_disk]_vars

\* C24: an upload whose file name passed the extension validation of
\* /hc/upload never fails afterwards with "Unsupported file type": the two
\* extension checks agree, also on a name that is only an extension.
C24_ExtensionChecksAgree ==
    (last.op = "upload" /\ ValidUploadName(last.filename))
        => last.detail # "Unsupported file type"

\* the citations that carry the identifier "Unknown"
UnknownCitations(sources) ==
    {i \in 1..Len(sources) : sources[i].document_id = Unknown}

\* exactly one "Unknown" citation, with the title, category and file name of
\* the first chunk of `group`; nothing is asked when `group` holds no chunk
OneCitationOfFirst(docs, sources, group) ==
    IF group = {} THEN TRUE
    ELSE LET first == docs[CHOOSE j \in group : \A k \in group : j <= k]
         IN  /\ Cardinality(UnknownCitations(sources)) = 1
             /\ \A i \in UnknownCitations(sources) :
                   /\ sources[i].title = Get(first.metadata, "title", Unknown)
                   /\ sources[i].doc_type = Get(first.metadata, "doc_type", Doc_Type_Doc)
                   /\ sources[i].filename = Get(first.metadata, "filename", Unknown)

\* C25 as stated: the chunks whose metadata lacks an identifier collapse into
\* one "Unknown" citation that carries the title, category and file name of
\* the first chunk without identifier; there is at most one "Unknown"
\* citation.
C25_IdlessChunksCollapse ==
    last.op = "extract_sources"
        => /\ Cardinality(UnknownCitations(last.sources)) <= 1
           /\ OneCitationOfFirst(last.docs, last.sources,
                 {j \in 1..Len(last.docs) : "document_id" \notin DOMAIN last.docs[j].metadata})

\* C25 amended: the chunks whose metadata lacks an identifier and the chunks
\* whose identifier is the text "Unknown" collapse together into one
\* "Unknown" citation, which carries the title, category and file name of
\* the first of all these chunks; there is at most one "Unknown" citation,
\* and none when there is no such chunk.
C25_UnknownGroupCollapses ==
    last.op = "extract_sources"
        => LET group == {j \in 1..Len(last.docs) : IdOf(last.docs[j]) = Unknown}
           IN  /\ Cardinality(UnknownCitations(last.sources)) <= 1
               /\ group = {} => UnknownCitations(last.sources) = {}
               /\ OneCitationOfFirst(last.docs, last.sources, group)

\* chunks without identifier of two files, with a chunk that declares the
\* identifier "Unknown" between them, gave one citation, that of the first
C25_Witness ==
    /\ last.op = "extract_sources"
    /\ Len(last.docs) = 3
    /\ "document_id" \notin DOMAIN last.docs[1].metadata
    /\ last.docs[2] = DeclaredUnknownChunk
    /\ "document_id" \notin DOMAIN last.docs[3].metadata
    /\ last.docs[1].metadata.filename # last.docs[3].metadata.filename
    /\ Len(last.sources) = 1
    /\ last.sources[1].document_id = Unknown
    /\ last.sources[1].filename = last.docs[1].metadata.filename

\* C26: after the startup event no request changes the SOP agent reference
\* or the index it loaded: the agent holds the index that was on disk at
\* startup, stays unset or set as startup left it, and a /sop/ask that is
\* answered retrieves from that index, whatever the SOP vector store path
\* holds by then.
C26_SOPAgentFixedAfterStartup ==
    [][/\ (phase = "boot" /\ phase' = "up" /\ sop_agent' # None)
            => sop_agent'[1].vectorstore = sop_disk.chunks
       /\ phase = "up"
            => /\ sop_agent' = sop_agent
               /\ (last'.op = "sop_ask" /\ last'.code = 200)
                     => last'.docs = Search(sop_agent[1].vectorstore, SOP_TOP_K,
                                            last'.question)]_vars

\* a /sop/ask answered from the index loaded at startup after the index on
\* disk was replaced by another one
C26_Witness ==
    /\ phase = "up"
    /\ sop_agent # None
    /\ sop_disk.exists /\ sop_disk.loadable
    /\ sop_disk.chunks # sop_agent[1].vectorstore
    /\ last.op = "sop_ask"
    /\ last.code = 200
    /\ last.docs # <<>>
    /\ last.docs = Search(sop_agent[1].vectorstore, SOP_TOP_K, last.question)
    /\ last.docs # Search(sop_disk.chunks, SOP_TOP_K, last.question)

====
